---- MODULE Spec2Model ----
(***************************************************************************)
(* Model of ring_buffer.h: the two ring buffers GuardElemRingBuffer<T,S>   *)
(* and FullFlagRingBuffer<T,S>, and of the harness of main.cpp that drives *)
(* them.                                                                   *)
(*                                                                         *)
(* Spec   : both buffers of one capacity S driven by the same sequence of  *)
(*          completed write / read / clear calls (one caller).             *)
(* SpecMT : one buffer, as the sequential part of ring_buf_test left it,   *)
(*          shared by the writer thread (write_helper) and the reader      *)
(*          thread (read_helper) of each of the three parallel pairs;      *)
(*          every step is one access to the mutex, head, tail, the full    *)
(*          flag, a storage slot or writer_done; a failing assert aborts.  *)
(*          Where the unlocked accesses of a call race with another        *)
(*          thread, every order a build can give them is taken: loads of   *)
(*          head and tail made per use or once, either operand first.      *)
(* SpecPattern : one buffer, as ring_buf_test left it, shared by the two   *)
(*          BufferWriter threads and the two BufferReader threads of the   *)
(*          pattern test, at the same granularity, up to their joins.      *)
(* SpecRR : the pattern test and then, on the buffer as it left it, the    *)
(*          random test with the same four threads.                        *)
(* SpecLive: two threads, each calling public operations of one buffer in  *)
(*          any order, every thread that can take a step eventually taking *)
(*          one.                                                           *)
(***************************************************************************)
EXTENDS Integers, Sequences, FiniteSets

\* ---------------------------------------------------------------- bounds
\* Largest template capacity S explored (S ranges over 1..MaxCapacity).
MaxCapacity == 3
\* Written values are drawn from 0..MaxVal.
MaxVal == 1
\* A run of consecutive writes into an empty buffer is followed for up to
\* S + MaxOver writes.
MaxOver == 3
\* Largest capacity explored with two threads (S ranges over 1..MaxCapacityMT).
MaxCapacityMT == 2
\* The writer thread of a pair writes K values: S < K <= S + MaxExtra in
\* the first and third pair (capacity() + 42 and capacity() + 69 in
\* main.cpp), 1 <= K <= S + MaxExtra in the second (max(capacity() - 420, 10)).
MaxExtra == 2
\* Largest capacity explored in the pattern test (S ranges over 1..MaxCapacityRR).
MaxCapacityRR == 1
\* pattern_write(seed) writes the values seed..seed+PatternLen-1 (10 values
\* in main.cpp, into a buffer of 666 slots).
PatternLen == 1
\* Each call of BufferReader::read calls read() at least once and at most
\* MaxReads times before its five seconds are over.
MaxReads == 1
\* Each call of random_write calls write() at least once and at most
\* MaxWrites times before its five seconds are over.
MaxWrites == 1
\* random_write writes values drawn from 1..MaxRandom (1..1000 in main.cpp).
MaxRandom == 1
\* Each thread of SpecLive makes at most MaxCalls calls of public operations.
MaxCalls == 2

Values == 0..MaxVal

VARIABLES
    S,        \* template parameter S: the nominal capacity
    g,        \* GuardElemRingBuffer<int,S>:  [head, tail, buf]
    f,        \* FullFlagRingBuffer<int,S>:   [head, tail, buf, full]
    gret,     \* result of the last call on g (std::optional<T>)
    fret,     \* result of the last call on f
    lastOp,   \* the last completed call: "init", "write", "read", "clear"
    lastArg,  \* argument of the last write
    fifo,     \* the values written and neither read, dropped nor cleared
    written,  \* values written since the buffer was last empty
    runOK,    \* only writes happened since the buffer was last empty
    preEmpty, \* the buffer was empty before the last call
    prevOp,   \* the call before the last one
    prevEmpty,\* the buffer was empty before the call before the last one
    aret,     \* what the last call returns when replayed on fifo
    kind,     \* the class of the shared buffer: "guard" or "flag"
    m,        \* the shared buffer: [head, tail, full, buf]
    mutex,    \* acces_mutex: "free" or the thread that holds it
    writer_done, \* std::atomic_bool writer_done
    pc,       \* per thread: [fn, at], the function it is in and the place
    stk,      \* per thread: the places to return to
    reg,      \* per thread: values loaded from head, tail and a slot
    rb,       \* per thread: result of the last full() / empty()
    rr,       \* per thread: result of the last read()
    i,        \* write_helper's loop counter
    K,        \* nro_entries_to_write
    observed, \* the values read_helper got from read(), in order
    sizeRet,  \* what write_helper's size() call returned, once it has
    finalEmpty, \* what read_helper's last empty() returned
    read_values, \* per BufferReader thread: BufferReader::read_values
    nreads,   \* per BufferReader thread: read() calls made so far in this test
    calls,    \* per thread: public operations called so far by Caller
    pattern_i, \* per BufferWriter thread: pattern_write's loop counter i
    nwrites,  \* per BufferWriter thread: write() calls made by random_write
    test,     \* the test main's threads run: "pattern" or "random"
    round,    \* the writer/reader pair of ring_buf_test running: 1, 2 or 3
    wdata      \* per thread: the argument of its write(data) call

seqvars == <<S, g, f, gret, fret, lastOp, lastArg, fifo, written, runOK,
             preEmpty, prevOp, prevEmpty, aret>>

patvars == <<read_values, nreads, calls, pattern_i, nwrites, test, round>>

mtvars == <<kind, m, mutex, writer_done, pc, stk, reg, rb, rr, i, K,
            observed, sizeRet, finalEmpty, patvars, wdata>>

vars == <<seqvars, mtvars>>

\* std::optional<T>
Nullopt == [has |-> FALSE, val |-> 0]
Some(v) == [has |-> TRUE, val |-> v]

\* StaticCapacityRingBuffer::capacity()
Capacity == S

\* ------------------------------------------------ GuardElemRingBuffer
true_capacity == S + 1

GuardIdxIncrement(idx) == (idx + 1) % true_capacity

GuardFull(b) == GuardIdxIncrement(b.head) = b.tail

GuardEmpty(b) == b.head = b.tail

\* Mutant: the wrapped branch adds the nominal, not the physical, capacity.
GuardSizeNominalWrap(b) ==
    IF GuardFull(b) THEN Capacity
    ELSE IF b.head >= b.tail THEN b.head - b.tail
    ELSE (Capacity + b.head) - b.tail

\* Mutant: a full buffer reports its physical capacity.
GuardSizePhysical(b) ==
    IF GuardFull(b) THEN true_capacity
    ELSE IF b.head >= b.tail THEN b.head - b.tail
    ELSE (true_capacity + b.head) - b.tail

GuardSize(b) ==
    IF GuardFull(b) THEN Capacity
    ELSE IF b.head >= b.tail THEN b.head - b.tail
    ELSE (true_capacity + b.head) - b.tail

\* Mutant: read() does not test empty().
GuardReadNoEmptyCheck(b) ==
    [state |-> [b EXCEPT !.tail = GuardIdxIncrement(b.tail)],
     ret   |-> Some(b.buf[b.tail])]

\* Mutant: tail is advanced before the element is fetched.
GuardReadAdvanceFirst(b) ==
    IF GuardEmpty(b) THEN [state |-> b, ret |-> Nullopt]
    ELSE [state |-> [b EXCEPT !.tail = GuardIdxIncrement(b.tail)],
          ret   |-> Some(b.buf[GuardIdxIncrement(b.tail)])]

\* read(): [state, ret]
GuardRead(b) ==
    IF GuardEmpty(b) THEN [state |-> b, ret |-> Nullopt]
    ELSE [state |-> [b EXCEPT !.tail = GuardIdxIncrement(b.tail)],
          ret   |-> Some(b.buf[b.tail])]

\* Mutant: head is advanced before the value is stored.
GuardWriteStoreAfterAdvance(b, data) ==
    LET moved == IF GuardFull(b)
                 THEN [b EXCEPT !.tail = GuardIdxIncrement(b.tail)]
                 ELSE b
        adv   == [moved EXCEPT !.head = GuardIdxIncrement(moved.head)]
    IN  [adv EXCEPT !.buf[adv.head] = data]

\* Mutant: a write into a full buffer does not move tail.
GuardWriteNoDrop(b, data) ==
    LET stored == [b EXCEPT !.buf[b.head] = data]
    IN  [stored EXCEPT !.head = GuardIdxIncrement(stored.head)]

GuardWrite(b, data) ==
    LET stored == [b EXCEPT !.buf[b.head] = data]
        moved  == IF GuardFull(stored)
                  THEN [stored EXCEPT !.tail = GuardIdxIncrement(stored.tail)]
                  ELSE stored
    IN  [moved EXCEPT !.head = GuardIdxIncrement(moved.head)]

\* Mutant: clear moves tail to head.
GuardClearMovesTail(b) == [b EXCEPT !.tail = b.head]

GuardClear(b) == [b EXCEPT !.head = b.tail]

GuardInit == [head |-> 0, tail |-> 0, buf |-> [j \in 0..S |-> 0]]

\* ------------------------------------------------- FullFlagRingBuffer
\* Mutant: the index wraps at the guard-element buffer's physical capacity.
FlagIdxIncrementGuardSized(idx) == (idx + 1) % (S + 1)

FlagIdxIncrement(idx) == (idx + 1) % S

FlagFull(b) == b.full

FlagEmpty(b) == (b.head = b.tail) /\ ~b.full

FlagSize(b) ==
    IF b.full THEN S
    ELSE IF b.head >= b.tail THEN b.head - b.tail
    ELSE (S + b.head) - b.tail

\* Mutant: a successful read leaves the full flag as it was.
FlagReadKeepsFlag(b) ==
    IF FlagEmpty(b) THEN [state |-> b, ret |-> Nullopt]
    ELSE [state |-> [b EXCEPT !.tail = FlagIdxIncrement(b.tail)],
          ret   |-> Some(b.buf[b.tail])]

FlagRead(b) ==
    IF FlagEmpty(b) THEN [state |-> b, ret |-> Nullopt]
    ELSE [state |-> [b EXCEPT !.tail = FlagIdxIncrement(b.tail), !.full = FALSE],
          ret   |-> Some(b.buf[b.tail])]

\* Mutant: the full flag is recomputed before head is advanced.
FlagWriteFlagEarly(b, data) ==
    LET stored == [b EXCEPT !.buf[b.head] = data]
        moved  == IF FlagFull(stored)
                  THEN [stored EXCEPT !.tail = FlagIdxIncrement(stored.tail)]
                  ELSE stored
        flag   == [moved EXCEPT !.full = (moved.head = moved.tail)]
    IN  [flag EXCEPT !.head = FlagIdxIncrement(flag.head)]

FlagWrite(b, data) ==
    LET stored == [b EXCEPT !.buf[b.head] = data]
        moved  == IF FlagFull(stored)
                  THEN [stored EXCEPT !.tail = FlagIdxIncrement(stored.tail)]
                  ELSE stored
        adv    == [moved EXCEPT !.head = FlagIdxIncrement(moved.head)]
    IN  [adv EXCEPT !.full = (adv.head = adv.tail)]

\* Mutant: clear leaves the full flag as it was.
FlagClearKeepsFlag(b) == [b EXCEPT !.head = b.tail]

FlagClear(b) == [b EXCEPT !.head = b.tail, !.full = FALSE]

FlagInit == [head |-> 0, tail |-> 0, full |-> FALSE,
             buf |-> [j \in 0..(S - 1) |-> 0]]

\* ------------------------------------------------------------- drains
\* read_helper's loop: read() until empty(); the values read, in order.
RECURSIVE GuardDrain(_)
GuardDrain(b) ==
    IF GuardEmpty(b) THEN <<>>
    ELSE LET r == GuardRead(b)
         IN  IF r.ret.has THEN <<r.ret.val>> \o GuardDrain(r.state) ELSE <<>>

RECURSIVE FlagDrain(_)
FlagDrain(b) ==
    IF FlagEmpty(b) THEN <<>>
    ELSE LET r == FlagRead(b)
         IN  IF r.ret.has THEN <<r.ret.val>> \o FlagDrain(r.state) ELSE <<>>

\* ----------------------------------- ring_buf_test before its threads
\* write_helper(n): write(0) .. write(n-1), from j on. (The arguments are
\* bound to their values once, to keep the evaluation linear.)
RECURSIVE GuardWriteHelper(_, _, _)
GuardWriteHelper(b, j, n) ==
    CHOOSE r \in {IF jj >= n THEN bb
                   ELSE GuardWriteHelper(GuardWrite(bb, jj), jj + 1, n) :
                      bb \in {b}, jj \in {j}} : TRUE

RECURSIVE FlagWriteHelper(_, _, _)
FlagWriteHelper(b, j, n) ==
    CHOOSE r \in {IF jj >= n THEN bb
                   ELSE FlagWriteHelper(FlagWrite(bb, jj), jj + 1, n) :
                      bb \in {b}, jj \in {j}} : TRUE

\* read_helper: read() until empty(); the buffer it leaves.
RECURSIVE GuardReadHelper(_)
GuardReadHelper(b) ==
    CHOOSE r \in {IF GuardEmpty(bb) THEN bb
                   ELSE GuardReadHelper(GuardRead(bb).state) : bb \in {b}} : TRUE

RECURSIVE FlagReadHelper(_)
FlagReadHelper(b) ==
    CHOOSE r \in {IF FlagEmpty(bb) THEN bb
                   ELSE FlagReadHelper(FlagRead(bb).state) : bb \in {b}} : TRUE

\* The buffer when ring_buf_test starts its first two threads: four rounds
\* of write_helper / read_helper, then write(1) and clear().
GuardAfterSequential ==
    LET r1 == GuardReadHelper(GuardWriteHelper(GuardInit, 0, Capacity + 1))
        r2 == GuardReadHelper(GuardWriteHelper(r1, 0, Capacity + 10))
        r3 == GuardReadHelper(GuardWriteHelper(r2, 0, Capacity))
        r4 == GuardReadHelper(GuardWriteHelper(r3, 0, Capacity - 1))
    IN  GuardClear(GuardWrite(r4, 1))

FlagAfterSequential ==
    LET r1 == FlagReadHelper(FlagWriteHelper(FlagInit, 0, Capacity + 1))
        r2 == FlagReadHelper(FlagWriteHelper(r1, 0, Capacity + 10))
        r3 == FlagReadHelper(FlagWriteHelper(r2, 0, Capacity))
        r4 == FlagReadHelper(FlagWriteHelper(r3, 0, Capacity - 1))
    IN  FlagClear(FlagWrite(r4, 1))

\* nro_entries_to_write of the three pairs: capacity() + Extra1,
\* max(capacity() - Less2, Min2), capacity() + Extra3.
Extra1 == 42

Less2 == 420

Min2 == 10

Extra3 == 69

PairEntries(r) ==
    CASE r = 1 -> Capacity + Extra1
      [] r = 2 -> IF Capacity - Less2 > Min2 THEN Capacity - Less2 ELSE Min2
      [] r = 3 -> Capacity + Extra3

\* head and the slots after the write_helper threads of the three pairs.
GuardAfterPairs ==
    LET p1 == GuardWriteHelper(GuardAfterSequential, 0, PairEntries(1))
        p2 == GuardWriteHelper(p1, 0, PairEntries(2))
    IN  GuardWriteHelper(p2, 0, PairEntries(3))

FlagAfterPairs ==
    LET p1 == FlagWriteHelper(FlagAfterSequential, 0, PairEntries(1))
        p2 == FlagWriteHelper(p1, 0, PairEntries(2))
    IN  FlagWriteHelper(p2, 0, PairEntries(3))

\* ------------------------------------------------------ one caller
BothEmpty(gb, fb) == GuardEmpty(gb) /\ FlagEmpty(fb)

Threads == {"writer", "reader", "writer2", "reader2"}

\* The BufferReader threads of the pattern and random tests.
Readers == {"reader", "reader2"}

\* The BufferWriter threads of the pattern and random tests.
Writers == {"writer", "writer2"}

\* A thread that has not started.
Idle == [fn |-> "none", at |-> "end"]

\* The registers of a thread: the values it holds of head (h), tail (t) and
\* a slot (v), and whether h and t hold a value loaded or stored in the
\* current operation since its last unlock (hl, tl).
NoReg == [h |-> 0, t |-> 0, v |-> 0, first |-> "none",
          hl |-> FALSE, tl |-> FALSE]

\* The parallel test has not started.
MTIdle ==
    /\ kind = "guard"
    /\ m = [head |-> 0, tail |-> 0, full |-> FALSE, buf |-> <<>>]
    /\ mutex = "free"
    /\ writer_done = FALSE
    /\ pc = [t \in Threads |-> Idle]
    /\ stk = [t \in Threads |-> <<>>]
    /\ reg = [t \in Threads |-> NoReg]
    /\ rb = [t \in Threads |-> FALSE]
    /\ rr = [t \in Threads |-> Nullopt]
    /\ i = 0
    /\ K = 0
    /\ observed = <<>>
    /\ sizeRet = Nullopt
    /\ finalEmpty = FALSE
    /\ read_values = [t \in Readers |-> <<>>]
    /\ nreads = [t \in Readers |-> 0]
    /\ calls = [t \in Threads |-> 0]
    /\ pattern_i = [t \in Writers |-> 0]
    /\ nwrites = [t \in Writers |-> 0]
    /\ test = "none"
    /\ round = 0
    /\ wdata = [t \in Threads |-> 0]

Init ==
    /\ MTIdle
    /\ S \in 1..MaxCapacity
    /\ g = GuardInit
    /\ f = FlagInit
    /\ gret = Nullopt
    /\ fret = Nullopt
    /\ lastOp = "init"
    /\ lastArg = 0
    /\ fifo = <<>>
    /\ written = <<>>
    /\ runOK = TRUE
    /\ preEmpty = TRUE
    /\ prevOp = "init"
    /\ prevEmpty = TRUE
    /\ aret = Nullopt

\* ring_buf.write(v) on each buffer.
Write(v) ==
    /\ g' = GuardWrite(g, v)
    /\ f' = FlagWrite(f, v)
    /\ gret' = Nullopt
    /\ fret' = Nullopt
    /\ lastOp' = "write"
    /\ lastArg' = v
    /\ fifo' = IF Len(fifo) = S THEN Append(Tail(fifo), v) ELSE Append(fifo, v)
    /\ IF runOK /\ Len(written) < S + MaxOver
       THEN written' = Append(written, v) /\ runOK' = TRUE
       ELSE written' = <<>> /\ runOK' = FALSE
    /\ preEmpty' = BothEmpty(g, f)
    /\ prevOp' = lastOp
    /\ prevEmpty' = preEmpty
    /\ aret' = Nullopt
    /\ UNCHANGED <<S, mtvars>>

\* ring_buf.read() on each buffer.
Read ==
    /\ g' = GuardRead(g).state
    /\ f' = FlagRead(f).state
    /\ gret' = GuardRead(g).ret
    /\ fret' = FlagRead(f).ret
    /\ lastOp' = "read"
    /\ fifo' = IF fifo = <<>> THEN fifo ELSE Tail(fifo)
    /\ aret' = IF fifo = <<>> THEN Nullopt ELSE Some(Head(fifo))
    /\ written' = <<>>
    /\ runOK' = BothEmpty(g', f')
    /\ preEmpty' = BothEmpty(g, f)
    /\ prevOp' = lastOp
    /\ prevEmpty' = preEmpty
    /\ UNCHANGED <<S, lastArg, mtvars>>

\* ring_buf.clear() on each buffer.
Clear ==
    /\ g' = GuardClear(g)
    /\ f' = FlagClear(f)
    /\ gret' = Nullopt
    /\ fret' = Nullopt
    /\ lastOp' = "clear"
    /\ fifo' = <<>>
    /\ aret' = Nullopt
    /\ written' = <<>>
    /\ runOK' = BothEmpty(g', f')
    /\ preEmpty' = BothEmpty(g, f)
    /\ prevOp' = lastOp
    /\ prevEmpty' = preEmpty
    /\ UNCHANGED <<S, lastArg, mtvars>>

Next ==
    \/ \E v \in Values : Write(v)
    \/ Read
    \/ Clear

Spec == Init /\ [][Next]_vars

\* ------------------------------------------- two threads, one buffer
\* Every public operation opens with "std::scoped_lock (this->acces_mutex);":
\* an expression statement that builds a temporary scoped_lock and destroys
\* it at the end of the statement. The mutex is taken and released before
\* the first access of the operation.
PhysCapacity == IF kind = "guard" THEN true_capacity ELSE S

Inc(idx) == IF kind = "guard" THEN GuardIdxIncrement(idx) ELSE FlagIdxIncrement(idx)

Goto(t, at) == pc' = [pc EXCEPT ![t].at = at]

\* Call fn, to come back to place `back` of the current function.
Call(t, fn, back) ==
    /\ pc' = [pc EXCEPT ![t] = [fn |-> fn, at |-> "lock"]]
    /\ stk' = [stk EXCEPT ![t] = <<[fn |-> pc[t].fn, at |-> back]>> \o stk[t]]

Return(t) ==
    /\ pc' = [pc EXCEPT ![t] = Head(stk[t])]
    /\ stk' = [stk EXCEPT ![t] = Tail(stk[t])]

\* head, tail, _full and the slots are plain fields accessed with the mutex
\* free (the lock is a temporary), by several threads: a data race. The
\* accesses a call makes after its last unlock are then ordered only by
\* their data dependences, and builds differ (g++ -O0 loads a field each
\* time the source names it; g++ -O2 loads it once per call; the processor
\* lets a load overtake an earlier store to another field). The bodies below
\* take every such order: a load of head or tail is made anew or reuses the
\* value the thread holds, the two operands of an expression are loaded in
\* either order, a load may be made before the thread's earlier store to
\* another field, and two stores to different fields go in either order.

\* The registers r once field x is loaded.
Loaded(r, x) ==
    IF x = "head" THEN [r EXCEPT !.h = m.head, !.hl = TRUE]
    ELSE [r EXCEPT !.t = m.tail, !.tl = TRUE]

\* The two operands head and tail of one expression, loaded in either order.
LoadFirst(t) ==
    \E x \in {"head", "tail"} :
        reg' = [reg EXCEPT ![t] = [Loaded(reg[t], x) EXCEPT !.first = x]]

\* The loaded values are dead once the operation returns.
Forget(t) == reg' = [reg EXCEPT ![t] = NoReg]

\* The registers once the second operand is loaded.
LoadSecond(t) ==
    [Loaded(reg[t], IF reg[t].first = "head" THEN "tail" ELSE "head")
        EXCEPT !.first = "none"]

\* full() and empty() return: inside read(), write() or size() the caller
\* goes on with the registers r, otherwise they are dead.
Leave(t, r) ==
    reg' = [reg EXCEPT ![t] = IF Len(stk[t]) > 1 THEN r ELSE NoReg]

\* The asserts of main.cpp are compiled in: a failed assert ends the
\* program, no thread takes another step.
Abort == pc' = [t \in Threads |-> [fn |-> "abort", at |-> "end"]]

\* ring_buf_test runs three writer/reader pairs one after the other.
Rounds == 3

\* nro_entries_to_write of a pair, bounded: the first and the third exceed
\* the capacity; the second is below it for the 666 slots of main.
RoundK(r) == IF r = 2 THEN 1..(S + MaxExtra) ELSE (S + 1)..(S + MaxExtra)

\* A size_t above capacity(); a negative difference d is the size_t value
\* 2^64 + d.
OverCapacity(v) == v < 0 \/ v > Capacity

InitMT ==
    /\ S \in 1..MaxCapacityMT
    /\ g = GuardInit
    /\ f = FlagInit
    /\ gret = Nullopt /\ fret = Nullopt /\ aret = Nullopt
    /\ lastOp = "init" /\ prevOp = "init" /\ lastArg = 0
    /\ fifo = <<>> /\ written = <<>>
    /\ runOK = TRUE /\ preEmpty = TRUE /\ prevEmpty = TRUE
    /\ kind \in {"guard", "flag"}
    /\ K \in RoundK(1)
    \* the buffer as the single-threaded part of ring_buf_test left it
    /\ \E gb \in {GuardAfterSequential}, fb \in {FlagAfterSequential} :
           m = IF kind = "guard"
               THEN [head |-> gb.head, tail |-> gb.tail, full |-> FALSE,
                     buf |-> gb.buf]
               ELSE fb
    /\ mutex = "free"
    /\ writer_done = FALSE
    /\ pc = [t \in Threads |->
               IF t = "writer" THEN [fn |-> "write_helper", at |-> "loop"]
               ELSE IF t = "reader" THEN [fn |-> "read_helper", at |-> "loop"]
               ELSE Idle]
    /\ stk = [t \in Threads |-> <<>>]
    /\ reg = [t \in Threads |-> NoReg]
    /\ rb = [t \in Threads |-> FALSE]
    /\ rr = [t \in Threads |-> Nullopt]
    /\ i = 0
    /\ observed = <<>>
    /\ sizeRet = Nullopt
    /\ finalEmpty = FALSE
    /\ read_values = [t \in Readers |-> <<>>]
    /\ nreads = [t \in Readers |-> 0]
    /\ calls = [t \in Threads |-> 0]
    /\ pattern_i = [t \in Writers |-> 0]
    /\ nwrites = [t \in Writers |-> 0]
    /\ test = "none"
    /\ round = 1
    /\ wdata = [t \in Threads |-> 0]

\* std::scoped_lock (this->acces_mutex); the temporary's constructor
ScopedLock(t) ==
    /\ pc[t].at = "lock"
    /\ mutex = "free"
    /\ mutex' = t
    /\ Goto(t, "unlock")
    /\ UNCHANGED <<seqvars, patvars, wdata, kind, m, writer_done, stk, reg, rb, rr, i, K,
                   observed, sizeRet, finalEmpty>>

\* Mutant: the lock lives to the end of the scope, the mutex stays taken.
ScopedUnlockKeepsMutex(t) ==
    /\ pc[t].at = "unlock"
    /\ Goto(t, "a")
    /\ UNCHANGED <<seqvars, patvars, wdata, kind, m, mutex, writer_done, stk, reg, rb,
                   rr, i, K, observed, sizeRet, finalEmpty>>

\* ... and its destructor, at the end of the same statement
ScopedUnlock(t) ==
    /\ pc[t].at = "unlock"
    /\ mutex' = "free"
    /\ Goto(t, "a")
    /\ UNCHANGED <<seqvars, patvars, wdata, kind, m, writer_done, stk, reg, rb, rr, i, K,
                   observed, sizeRet, finalEmpty>>

\* full(): idx_increment(head) == tail, or _full
FullBody(t) ==
    /\ pc[t].fn = "full"
    /\ \/ /\ pc[t].at = "a" /\ kind = "guard"
          /\ LoadFirst(t)
          /\ Goto(t, "b")
          /\ UNCHANGED <<stk, rb>>
       \/ /\ pc[t].at = "b"
          /\ rb' = [rb EXCEPT ![t] = (Inc(LoadSecond(t).h) = LoadSecond(t).t)]
          /\ Return(t)
          /\ Leave(t, LoadSecond(t))
       \/ /\ pc[t].at = "a" /\ kind = "flag"
          /\ rb' = [rb EXCEPT ![t] = m.full]
          /\ Return(t)
          /\ UNCHANGED reg
    /\ UNCHANGED <<seqvars, patvars, wdata, kind, m, mutex, writer_done, rr, i, K,
                   observed, sizeRet, finalEmpty>>

\* empty(): head == tail, or (head == tail) && !_full
EmptyBody(t) ==
    /\ pc[t].fn = "empty"
    /\ \/ /\ pc[t].at = "a"
          /\ LoadFirst(t)
          /\ Goto(t, "b")
          /\ UNCHANGED <<stk, rb>>
       \/ /\ pc[t].at = "b"
          /\ Leave(t, LoadSecond(t))
          /\ IF kind = "flag" /\ LoadSecond(t).h = LoadSecond(t).t
             THEN Goto(t, "c") /\ UNCHANGED <<stk, rb>>
             ELSE /\ rb' = [rb EXCEPT ![t] = (LoadSecond(t).h = LoadSecond(t).t)]
                  /\ Return(t)
       \/ /\ pc[t].at = "c"
          /\ rb' = [rb EXCEPT ![t] = ~m.full]
          /\ Return(t)
          /\ UNCHANGED reg
    /\ UNCHANGED <<seqvars, patvars, wdata, kind, m, mutex, writer_done, rr, i, K,
                   observed, sizeRet, finalEmpty>>

\* read()
ReadBody(t) ==
    /\ pc[t].fn = "read"
    /\ \/ /\ pc[t].at = "a"                          \* if (empty())
          /\ Call(t, "empty", "b")
          /\ UNCHANGED <<m, reg, rr>>
       \/ /\ pc[t].at = "b"
          /\ IF rb[t]
             THEN /\ rr' = [rr EXCEPT ![t] = Nullopt]            \* return {}
                  /\ Return(t)
                  /\ Forget(t)
             \* buf[tail]: tail is loaded (c) or the value empty() loaded is
             \* reused (d)
             ELSE /\ \E nxt \in {"c", "d"} : Goto(t, nxt)
                  /\ UNCHANGED <<stk, rr, reg>>
          /\ UNCHANGED m
       \/ /\ pc[t].at = "c"                          \* res = buf[tail]: tail
          /\ reg' = [reg EXCEPT ![t].t = m.tail]
          /\ Goto(t, "d")
          /\ UNCHANGED <<m, stk, rr>>
       \* idx_increment(tail): tail is loaded (e) or the held value is
       \* reused (f)
       \/ /\ pc[t].at = "d"                          \* res = buf[tail]: slot
          /\ reg' = [reg EXCEPT ![t].v = m.buf[reg[t].t]]
          /\ \E nxt \in {"e", "f"} : Goto(t, nxt)
          /\ UNCHANGED <<m, stk, rr>>
       \/ /\ pc[t].at = "e"                          \* idx_increment(tail)
          /\ reg' = [reg EXCEPT ![t].t = m.tail]
          /\ Goto(t, "f")
          /\ UNCHANGED <<m, stk, rr>>
       \/ /\ pc[t].at = "f"                          \* tail = ...
          /\ m' = [m EXCEPT !.tail = Inc(reg[t].t)]
          /\ IF kind = "guard"
             THEN rr' = [rr EXCEPT ![t] = Some(reg[t].v)] /\ Return(t) /\ Forget(t)
             ELSE Goto(t, "g") /\ UNCHANGED <<stk, rr, reg>>
       \/ /\ pc[t].at = "g"                          \* _full = false
          /\ m' = [m EXCEPT !.full = FALSE]
          /\ rr' = [rr EXCEPT ![t] = Some(reg[t].v)]
          /\ Return(t)
          /\ Forget(t)
       \* the two stores in the other order: _full = false first
       \/ /\ pc[t].at = "f" /\ kind = "flag"         \* _full = false
          /\ m' = [m EXCEPT !.full = FALSE]
          /\ Goto(t, "h")
          /\ UNCHANGED <<stk, rr, reg>>
       \/ /\ pc[t].at = "h"                          \* tail = ...
          /\ m' = [m EXCEPT !.tail = Inc(reg[t].t)]
          /\ rr' = [rr EXCEPT ![t] = Some(reg[t].v)]
          /\ Return(t)
          /\ Forget(t)
    /\ UNCHANGED <<seqvars, patvars, wdata, kind, mutex, writer_done, rb, i, K,
                   observed, sizeRet, finalEmpty>>

\* The places write() can go on to when it comes to "tail =
\* idx_increment(tail)": load tail (e); reuse the held tail and store (f);
\* or reuse it and load head for the next statement before the store (q).
WriteTailPlaces(r) == {"e"} \cup (IF r.tl THEN {"f", "q"} ELSE {})

\* The places write() can go on to when it comes to "head =
\* idx_increment(head)": load head (g); reuse the held head and store (h);
\* or, where "_full = head == tail" follows and no tail is held, load tail
\* for it first (m).
WriteHeadPlaces(r) ==
    {"g"} \cup (IF r.hl THEN {"h"} ELSE {})
          \cup (IF kind = "flag" /\ ~r.tl THEN {"m"} ELSE {})

\* write(data)
WriteBody(t) ==
    /\ pc[t].fn = "write"
    /\ \/ /\ pc[t].at = "a"                          \* buf[head] = data: head
          /\ reg' = [reg EXCEPT ![t].h = m.head]
          /\ Goto(t, "b")
          /\ UNCHANGED <<m, stk>>
       \/ /\ pc[t].at = "b"                          \* buf[head] = data: slot
          /\ m' = [m EXCEPT !.buf[reg[t].h] = wdata[t]]
          /\ Goto(t, "c")
          /\ UNCHANGED <<reg, stk>>
       \/ /\ pc[t].at = "c"                          \* if (full())
          /\ Call(t, "full", "d")
          /\ Forget(t)
          /\ UNCHANGED m
       \/ /\ pc[t].at = "d"
          /\ \E nxt \in (IF rb[t] THEN WriteTailPlaces(reg[t])
                         ELSE WriteHeadPlaces(reg[t])) : Goto(t, nxt)
          /\ UNCHANGED <<m, reg, stk>>
       \/ /\ pc[t].at = "e"                          \* idx_increment(tail)
          /\ reg' = [reg EXCEPT ![t] = Loaded(reg[t], "tail")]
          /\ \E nxt \in {"f", "q"} : Goto(t, nxt)
          /\ UNCHANGED <<m, stk>>
       \/ /\ pc[t].at = "f"                          \* tail = ...
          /\ m' = [m EXCEPT !.tail = Inc(reg[t].t)]
          /\ reg' = [reg EXCEPT ![t].t = Inc(reg[t].t)]
          /\ \E nxt \in WriteHeadPlaces(reg[t]) : Goto(t, nxt)
          /\ UNCHANGED stk
       \/ /\ pc[t].at = "q"              \* idx_increment(head), before f
          /\ reg' = [reg EXCEPT ![t] = Loaded(reg[t], "head")]
          /\ Goto(t, "r")
          /\ UNCHANGED <<m, stk>>
       \/ /\ pc[t].at = "r"                          \* tail = ...
          /\ m' = [m EXCEPT !.tail = Inc(reg[t].t)]
          /\ reg' = [reg EXCEPT ![t].t = Inc(reg[t].t)]
          /\ Goto(t, "h")
          /\ UNCHANGED stk
       \/ /\ pc[t].at = "m"              \* head == tail: tail, before g
          /\ reg' = [reg EXCEPT ![t] = Loaded(reg[t], "tail")]
          /\ Goto(t, "g")
          /\ UNCHANGED <<m, stk>>
       \/ /\ pc[t].at = "g"                          \* idx_increment(head)
          /\ reg' = [reg EXCEPT ![t] = Loaded(reg[t], "head")]
          /\ \E nxt \in {"h"} \cup (IF kind = "flag" /\ ~reg[t].tl
                                     THEN {"p"} ELSE {}) : Goto(t, nxt)
          /\ UNCHANGED <<m, stk>>
       \/ /\ pc[t].at = "p"              \* head == tail: tail, before h
          /\ reg' = [reg EXCEPT ![t] = Loaded(reg[t], "tail")]
          /\ Goto(t, "h")
          /\ UNCHANGED <<m, stk>>
       \/ /\ pc[t].at = "h"                          \* head = ...
          /\ m' = [m EXCEPT !.head = Inc(reg[t].h)]
          /\ IF kind = "guard"
             THEN Return(t) /\ Forget(t)
             \* head == tail: both operands loaded (i, j); the stored head
             \* reused and tail loaded (j); or both reused (k)
             ELSE /\ \E nxt \in {"i", "j"} \cup (IF reg[t].tl THEN {"k"} ELSE {}) :
                        /\ Goto(t, nxt)
                        /\ reg' = [reg EXCEPT
                                      ![t].h = Inc(reg[t].h),
                                      ![t].first = IF nxt = "j" THEN "head"
                                                   ELSE "none"]
                  /\ UNCHANGED stk
       \/ /\ pc[t].at = "i"                          \* head == tail
          /\ LoadFirst(t)
          /\ Goto(t, "j")
          /\ UNCHANGED <<m, stk>>
       \/ /\ pc[t].at = "j"
          /\ reg' = [reg EXCEPT ![t] = LoadSecond(t)]
          /\ Goto(t, "k")
          /\ UNCHANGED <<m, stk>>
       \/ /\ pc[t].at = "k"                          \* _full = ...
          /\ m' = [m EXCEPT !.full = (reg[t].h = reg[t].t)]
          /\ Return(t)
          /\ Forget(t)
    /\ UNCHANGED <<seqvars, patvars, wdata, kind, mutex, writer_done, rb, rr, i, K,
                   observed, sizeRet, finalEmpty>>

\* size(), once "head >= tail" is evaluated with the registers r: the
\* operands of the difference are loaded (e, g) or the held values are
\* reused.
SizeCompared(t, r) ==
    \/ /\ Goto(t, IF r.h >= r.t THEN "e" ELSE "g")
       /\ reg' = [reg EXCEPT ![t] = r]
       /\ UNCHANGED <<stk, sizeRet>>
    \/ /\ sizeRet' = Some(IF r.h >= r.t THEN r.h - r.t
                          ELSE (PhysCapacity + r.h) - r.t)
       /\ Return(t)
       /\ Forget(t)

\* size(). The differences are size_t: where threads have moved the cursors
\* past each other between the loads, a negative sizeRet d stands for the
\* size_t value 2^64 + d.
SizeBody(t) ==
    /\ pc[t].fn = "size"
    /\ \/ /\ pc[t].at = "a" /\ kind = "guard"        \* if (full())
          /\ Call(t, "full", "b")
          /\ UNCHANGED <<reg, rb, sizeRet>>
       \/ /\ pc[t].at = "a" /\ kind = "flag"         \* if (_full)
          /\ rb' = [rb EXCEPT ![t] = m.full]
          /\ Goto(t, "b")
          /\ UNCHANGED <<reg, stk, sizeRet>>
       \/ /\ pc[t].at = "b" /\ rb[t]                 \* return capacity()
          /\ sizeRet' = Some(Capacity)
          /\ Return(t)
          /\ Forget(t)
          /\ UNCHANGED rb
       \/ /\ pc[t].at = "b" /\ ~rb[t]       \* head >= tail: load both
          /\ Goto(t, "c")
          /\ UNCHANGED <<reg, stk, rb, sizeRet>>
       \/ /\ pc[t].at = "b" /\ ~rb[t]       \* ... or reuse what full() loaded
          /\ reg[t].hl /\ reg[t].tl
          /\ SizeCompared(t, reg[t])
          /\ UNCHANGED rb
       \/ /\ pc[t].at \in {"c", "e", "g"}            \* first operand
          /\ LoadFirst(t)
          /\ Goto(t, CASE pc[t].at = "c" -> "d"
                       [] pc[t].at = "e" -> "f"
                       [] pc[t].at = "g" -> "h")
          /\ UNCHANGED <<stk, rb, sizeRet>>
       \/ /\ pc[t].at = "d"                          \* head >= tail
          /\ SizeCompared(t, LoadSecond(t))
          /\ UNCHANGED rb
       \/ /\ pc[t].at = "f"                          \* return head - tail
          /\ Forget(t)
          /\ sizeRet' = Some(LoadSecond(t).h - LoadSecond(t).t)
          /\ Return(t)
          /\ UNCHANGED rb
       \/ /\ pc[t].at = "h"              \* return (capacity + head) - tail
          /\ Forget(t)
          /\ sizeRet' = Some((PhysCapacity + LoadSecond(t).h) - LoadSecond(t).t)
          /\ Return(t)
          /\ UNCHANGED rb
    /\ UNCHANGED <<seqvars, patvars, wdata, kind, m, mutex, writer_done, rr, i, K,
                   observed, finalEmpty>>

\* write_helper(nro_entries_to_write = K, multithreaded = true)
WriteHelper ==
    /\ pc["writer"].fn = "write_helper"
    /\ \/ /\ pc["writer"].at = "loop"
          /\ IF i < K
             THEN Call("writer", "full", "polled")   \* while (... full())
             ELSE Call("writer", "size", "sized")    \* assert(!(size() > ...
          /\ UNCHANGED <<i, writer_done, wdata>>
       \/ /\ pc["writer"].at = "polled"
          /\ IF rb["writer"]
             THEN Goto("writer", "loop") /\ UNCHANGED <<stk, wdata>> \* sleep_for
             ELSE /\ Call("writer", "write", "written")            \* write(i)
                  /\ wdata' = [wdata EXCEPT !["writer"] = i]
          /\ UNCHANGED <<i, writer_done>>
       \/ /\ pc["writer"].at = "written"             \* ++i
          /\ i' = i + 1
          /\ Goto("writer", "loop")
          /\ UNCHANGED <<stk, writer_done, wdata>>
       \/ /\ pc["writer"].at = "sized"               \* assert; writer_done = true
          /\ IF OverCapacity(sizeRet.val)
             THEN Abort /\ UNCHANGED writer_done
             ELSE writer_done' = TRUE /\ Goto("writer", "end")
          /\ UNCHANGED <<stk, i, wdata>>
    /\ UNCHANGED <<seqvars, patvars, kind, m, mutex, reg, rb, rr, K,
                   observed, sizeRet, finalEmpty>>

\* read_helper(expected_nro_reads = K, 0, multithreaded = true)
ReadHelper ==
    /\ pc["reader"].fn = "read_helper"
    /\ \/ /\ pc["reader"].at = "loop"         \* !(writer_done && empty())
          /\ IF writer_done
             THEN Call("reader", "empty", "checked")
             ELSE Call("reader", "read", "got")
          /\ UNCHANGED <<observed, finalEmpty, writer_done>>
       \/ /\ pc["reader"].at = "checked"
          /\ IF rb["reader"]
             THEN Goto("reader", "after") /\ UNCHANGED stk
             ELSE Call("reader", "read", "got")
          /\ UNCHANGED <<observed, finalEmpty, writer_done>>
       \/ /\ pc["reader"].at = "got"          \* if (elem) entries_read++
          /\ observed' = IF rr["reader"].has
                         THEN Append(observed, rr["reader"].val)
                         ELSE observed
          /\ Goto("reader", "loop")
          /\ UNCHANGED <<stk, finalEmpty, writer_done>>
       \/ /\ pc["reader"].at = "after"        \* assert(ring_buf.empty() ...
          /\ Call("reader", "empty", "asserted")
          /\ UNCHANGED <<observed, finalEmpty, writer_done>>
       \* the two asserts, then writer_done = false
       \/ /\ pc["reader"].at = "asserted"
          /\ finalEmpty' = rb["reader"]
          /\ IF rb["reader"] /\ Len(observed) = K
             THEN writer_done' = FALSE /\ Goto("reader", "end")
             ELSE Abort /\ UNCHANGED writer_done
          /\ UNCHANGED <<stk, observed>>
    /\ UNCHANGED <<seqvars, patvars, wdata, kind, m, mutex, reg, rb, rr, i, K, sizeRet>>

\* Both threads of a pair are joined; ring_buf_test starts the next pair.
StartRound ==
    /\ pc["writer"] = [fn |-> "write_helper", at |-> "end"]
    /\ pc["reader"] = [fn |-> "read_helper", at |-> "end"]
    /\ round < Rounds
    /\ round' = round + 1
    /\ K' \in RoundK(round + 1)
    /\ pc' = [pc EXCEPT !["writer"] = [fn |-> "write_helper", at |-> "loop"],
                        !["reader"] = [fn |-> "read_helper", at |-> "loop"]]
    /\ i' = 0
    /\ observed' = <<>>
    /\ sizeRet' = Nullopt
    /\ finalEmpty' = FALSE
    /\ rb' = [t \in Threads |-> FALSE]
    /\ rr' = [t \in Threads |-> Nullopt]
    /\ wdata' = [t \in Threads |-> 0]
    /\ UNCHANGED <<seqvars, read_values, nreads, calls, pattern_i, nwrites,
                   test, kind, m, mutex, writer_done, stk, reg>>

NextMT ==
    \/ \E t \in Threads : ScopedLock(t)
    \/ \E t \in Threads : ScopedUnlock(t)
    \/ \E t \in Threads : FullBody(t)
    \/ \E t \in Threads : EmptyBody(t)
    \/ \E t \in Threads : ReadBody(t)
    \/ \E t \in Threads : WriteBody(t)
    \/ \E t \in Threads : SizeBody(t)
    \/ WriteHelper
    \/ ReadHelper
    \/ StartRound

SpecMT == InitMT /\ [][NextMT]_vars

\* ------------------------- the pattern test and the random test of main
\* The seed main passes to writer2's pattern_write; writer1 gets 0.
Seed2 == 20

Seed(t) == IF t = "writer2" THEN Seed2 ELSE 0

\* The values random_write draws.
RandomValues == 1..MaxRandom

InitRR ==
    /\ S \in 1..MaxCapacityRR
    /\ g = GuardInit
    /\ f = FlagInit
    /\ gret = Nullopt /\ fret = Nullopt /\ aret = Nullopt
    /\ lastOp = "init" /\ prevOp = "init" /\ lastArg = 0
    /\ fifo = <<>> /\ written = <<>>
    /\ runOK = TRUE /\ preEmpty = TRUE /\ prevEmpty = TRUE
    /\ kind \in {"guard", "flag"}
    /\ K = PatternLen
    \* ring_buf_test has returned. Only its writer threads stored head and
    \* the slots, one write after the other, and each of its reader threads
    \* asserted empty() before it ended: head and the slots are where the
    \* writes of the three pairs left them, and the buffer is empty.
    /\ \E w \in {IF kind = "guard" THEN GuardAfterPairs ELSE FlagAfterPairs} :
           m = [head |-> w.head, tail |-> w.head, full |-> FALSE,
                buf |-> w.buf]
    /\ mutex = "free"
    /\ writer_done = FALSE
    /\ pc = [t \in Threads |->
               IF t \in Writers THEN [fn |-> "pattern_write", at |-> "loop"]
               ELSE [fn |-> "reader_read", at |-> "loop"]]
    /\ stk = [t \in Threads |-> <<>>]
    /\ reg = [t \in Threads |-> NoReg]
    /\ rb = [t \in Threads |-> FALSE]
    /\ rr = [t \in Threads |-> Nullopt]
    /\ i = 0
    /\ observed = <<>>
    /\ sizeRet = Nullopt
    /\ finalEmpty = FALSE
    /\ read_values = [t \in Readers |-> <<>>]
    /\ nreads = [t \in Readers |-> 0]
    /\ calls = [t \in Threads |-> 0]
    /\ pattern_i = [t \in Writers |-> Seed(t)]       \* size_t i = seed
    /\ nwrites = [t \in Writers |-> 0]
    /\ test = "pattern"
    /\ round = 0
    /\ wdata = [t \in Threads |-> 0]

\* BufferWriter::pattern_write(seed)
PatternWrite(t) ==
    /\ pc[t].fn = "pattern_write"
    /\ \/ /\ pc[t].at = "loop"                    \* i < 10 + seed
          /\ IF pattern_i[t] < PatternLen + Seed(t)
             THEN /\ Call(t, "write", "written")  \* buf->write(i)
                  /\ wdata' = [wdata EXCEPT ![t] = pattern_i[t]]
             ELSE Goto(t, "end") /\ UNCHANGED <<stk, wdata>>
          /\ UNCHANGED pattern_i
       \/ /\ pc[t].at = "written"                 \* sleep_for; ++i
          /\ pattern_i' = [pattern_i EXCEPT ![t] = pattern_i[t] + 1]
          /\ Goto(t, "loop")
          /\ UNCHANGED <<stk, wdata>>
    /\ UNCHANGED <<seqvars, read_values, nreads, calls, nwrites, test, round,
                   kind, m, mutex, writer_done, reg, rb, rr, i, K, observed,
                   sizeRet, finalEmpty>>

\* BufferWriter::random_write()
RandomWrite(t) ==
    /\ pc[t].fn = "random_write"
    /\ \/ /\ pc[t].at = "loop"                    \* time_span.count() < 5000
          /\ nwrites[t] < MaxWrites
          /\ Call(t, "write", "written")          \* buf->write(dist(rng))
          /\ \E v \in RandomValues : wdata' = [wdata EXCEPT ![t] = v]
          /\ nwrites' = [nwrites EXCEPT ![t] = nwrites[t] + 1]
       \/ /\ pc[t].at = "loop"                    \* the five seconds are over
          /\ nwrites[t] >= 1                      \* time_span starts at 0
          /\ Goto(t, "end")
          /\ UNCHANGED <<stk, wdata, nwrites>>
       \/ /\ pc[t].at = "written"                 \* sleep_for
          /\ Goto(t, "loop")
          /\ UNCHANGED <<stk, wdata, nwrites>>
    /\ UNCHANGED <<seqvars, read_values, nreads, calls, pattern_i, test, round,
                   kind, m, mutex, writer_done, reg, rb, rr, i, K, observed,
                   sizeRet, finalEmpty>>

\* BufferReader::read()
BufferReaderRead(t) ==
    /\ pc[t].fn = "reader_read"
    /\ \/ /\ pc[t].at = "loop"                    \* time_span.count() < 5000
          /\ nreads[t] < MaxReads
          /\ Call(t, "read", "got")               \* auto read = buf->read()
          /\ nreads' = [nreads EXCEPT ![t] = nreads[t] + 1]
          /\ UNCHANGED read_values
       \/ /\ pc[t].at = "loop"                    \* the five seconds are over
          /\ nreads[t] >= 1                       \* time_span starts at 0
          /\ Goto(t, "end")
          /\ UNCHANGED <<stk, read_values, nreads>>
       \/ /\ pc[t].at = "got"                     \* if (read) emplace_back
          /\ read_values' = IF rr[t].has
                            THEN [read_values EXCEPT ![t] = Append(read_values[t], rr[t].val)]
                            ELSE read_values
          /\ Goto(t, "loop")
          /\ UNCHANGED <<stk, nreads>>
    /\ UNCHANGED <<seqvars, calls, pattern_i, nwrites, test, round, wdata, kind,
                   m, mutex, writer_done, reg, rb, rr, i, K, observed, sizeRet,
                   finalEmpty>>

\* The values pattern_write(seed) writes, in order.
Pattern(t) == [j \in 1..PatternLen |-> Seed(t) + j - 1]

\* The four threads of the pattern test are joined; main starts the four
\* threads of the random test on the same buffer, with the same writers and
\* readers, whatever the readers got and whatever the buffer holds.
StartRandom ==
    /\ test = "pattern"
    /\ \A t \in Threads : pc[t].at = "end"
    /\ test' = "random"
    /\ pc' = [t \in Threads |->
                IF t \in Writers THEN [fn |-> "random_write", at |-> "loop"]
                ELSE [fn |-> "reader_read", at |-> "loop"]]
    /\ nreads' = [t \in Readers |-> 0]
    /\ rb' = [t \in Threads |-> FALSE]
    /\ rr' = [t \in Threads |-> Nullopt]
    /\ wdata' = [t \in Threads |-> 0]
    /\ UNCHANGED <<seqvars, read_values, calls, pattern_i, nwrites, round, kind,
                   m, mutex, writer_done, stk, reg, i, K, observed, sizeRet,
                   finalEmpty>>

\* The pattern test: two pattern_write threads and two BufferReader::read
\* threads on one buffer, up to their joins.
NextPattern ==
    \/ \E t \in Threads : ScopedLock(t)
    \/ \E t \in Threads : ScopedUnlock(t)
    \/ \E t \in Threads : FullBody(t)
    \/ \E t \in Threads : EmptyBody(t)
    \/ \E t \in Threads : ReadBody(t)
    \/ \E t \in Threads : WriteBody(t)
    \/ \E t \in Writers : PatternWrite(t)
    \/ \E t \in Readers : BufferReaderRead(t)

SpecPattern == InitRR /\ [][NextPattern]_vars

\* The pattern test and, after its joins, the random test.
NextRR ==
    \/ NextPattern
    \/ \E t \in Writers : RandomWrite(t)
    \/ StartRandom

SpecRR == InitRR /\ [][NextRR]_vars

\* ------------------------------ any two callers, every thread scheduled
\* The public operations of BaseRingBuffer.
Ops == {"read", "write", "clear", "full", "empty", "size"}

\* The threads that call them.
Callers == {"writer", "reader"}

\* Thread t is inside a public operation.
InOp(t) == pc[t].fn \in Ops

\* clear(): head = tail, and _full = false in FullFlagRingBuffer
ClearBody(t) ==
    /\ pc[t].fn = "clear"
    /\ \/ /\ pc[t].at = "a"                          \* this->tail
          /\ reg' = [reg EXCEPT ![t].t = m.tail]
          /\ Goto(t, "b")
          /\ UNCHANGED <<m, stk>>
       \/ /\ pc[t].at = "b"                          \* head = ...
          /\ m' = [m EXCEPT !.head = reg[t].t]
          /\ IF kind = "guard"
             THEN Return(t) /\ Forget(t)
             ELSE Goto(t, "c") /\ UNCHANGED <<stk, reg>>
       \/ /\ pc[t].at = "c"                          \* _full = false
          /\ m' = [m EXCEPT !.full = FALSE]
          /\ Return(t)
          /\ Forget(t)
       \* head and _full are stored without the mutex and nothing orders the
       \* two stores: the build may emit _full = false first
       \/ /\ pc[t].at = "b" /\ kind = "flag"         \* _full = false
          /\ m' = [m EXCEPT !.full = FALSE]
          /\ Goto(t, "d")
          /\ UNCHANGED <<stk, reg>>
       \/ /\ pc[t].at = "d"                          \* head = ...
          /\ m' = [m EXCEPT !.head = reg[t].t]
          /\ Return(t)
          /\ Forget(t)
    /\ UNCHANGED <<seqvars, patvars, wdata, kind, mutex, writer_done, rb, rr, i, K,
                   observed, sizeRet, finalEmpty>>

InitLive ==
    /\ S \in 1..MaxCapacityRR
    /\ g = GuardInit
    /\ f = FlagInit
    /\ gret = Nullopt /\ fret = Nullopt /\ aret = Nullopt
    /\ lastOp = "init" /\ prevOp = "init" /\ lastArg = 0
    /\ fifo = <<>> /\ written = <<>>
    /\ runOK = TRUE /\ preEmpty = TRUE /\ prevEmpty = TRUE
    /\ kind \in {"guard", "flag"}
    /\ K = 0
    \* a newly constructed buffer: head(0), tail(0), _full(false)
    /\ m = [head |-> 0, tail |-> 0, full |-> FALSE,
            buf |-> [j \in 0..(PhysCapacity - 1) |-> 0]]
    /\ mutex = "free"
    /\ writer_done = FALSE
    /\ pc = [t \in Threads |->
               IF t \in Callers THEN [fn |-> "caller", at |-> "loop"] ELSE Idle]
    /\ stk = [t \in Threads |-> <<>>]
    /\ reg = [t \in Threads |-> NoReg]
    /\ rb = [t \in Threads |-> FALSE]
    /\ rr = [t \in Threads |-> Nullopt]
    /\ i = 0
    /\ observed = <<>>
    /\ sizeRet = Nullopt
    /\ finalEmpty = FALSE
    /\ read_values = [t \in Readers |-> <<>>]
    /\ nreads = [t \in Readers |-> 0]
    /\ calls = [t \in Threads |-> 0]
    /\ pattern_i = [t \in Writers |-> 0]
    /\ nwrites = [t \in Writers |-> 0]
    /\ test = "none"
    /\ round = 0
    /\ wdata = [t \in Threads |-> 0]

\* A thread calling public operations one after the other; write is called
\* with data = 0.
Caller(t) ==
    /\ pc[t].fn = "caller"
    /\ \/ /\ pc[t].at = "loop"
          /\ calls[t] < MaxCalls
          /\ \E op \in Ops : Call(t, op, "returned")
          /\ calls' = [calls EXCEPT ![t] = calls[t] + 1]
       \/ /\ pc[t].at = "returned"
          /\ Goto(t, "loop")
          /\ UNCHANGED <<stk, calls>>
    /\ UNCHANGED <<seqvars, read_values, nreads, pattern_i, nwrites, test,
                   round, wdata, kind, m, mutex, writer_done, reg, rb, rr, i, K,
                   observed, sizeRet, finalEmpty>>

\* The steps of thread t.
ThreadStep(t) ==
    \/ ScopedLock(t)
    \/ ScopedUnlock(t)
    \/ FullBody(t)
    \/ EmptyBody(t)
    \/ ReadBody(t)
    \/ WriteBody(t)
    \/ ClearBody(t)
    \/ SizeBody(t)
    \/ Caller(t)

NextLive ==
    \/ \E t \in Callers : ScopedLock(t)
    \/ \E t \in Callers : ScopedUnlock(t)
    \/ \E t \in Callers : FullBody(t)
    \/ \E t \in Callers : EmptyBody(t)
    \/ \E t \in Callers : ReadBody(t)
    \/ \E t \in Callers : WriteBody(t)
    \/ \E t \in Callers : ClearBody(t)
    \/ \E t \in Callers : SizeBody(t)
    \/ \E t \in Callers : Caller(t)

\* Every thread that can take a step eventually takes one.
SpecLive ==
    /\ InitLive
    /\ [][NextLive]_vars
    /\ \A t \in Callers : WF_vars(ThreadStep(t))

\* ------------------------------------------------------------ claims
LastN(s, n) == SubSeq(s, Len(s) - n + 1, Len(s))

\* C1: after N > capacity() consecutive writes into an empty buffer, size()
\* is capacity() and a drain yields the last capacity() written values in
\* write order, for both buffers.
C1_OverwriteKeepsLast ==
    (runOK /\ Len(written) > Capacity) =>
        /\ GuardSize(g) = Capacity
        /\ FlagSize(f) = Capacity
        /\ GuardDrain(g) = LastN(written, Capacity)
        /\ FlagDrain(f) = LastN(written, Capacity)

C1_Witness ==
    /\ runOK /\ S >= 2 /\ Len(written) = S + MaxOver
    /\ g.tail > g.head /\ f.tail > 0
    /\ written[Len(written)] # written[Len(written) - 1]

\* C2: after N <= capacity() consecutive writes into an empty buffer,
\* size() is N, full() is (N = capacity()) and a drain yields the N written
\* values in write order, for both buffers, also when the writes wrap
\* around the end of the storage.
C2_WritesUpToCapacity ==
    (runOK /\ Len(written) <= Capacity) =>
        /\ GuardSize(g) = Len(written)
        /\ FlagSize(f) = Len(written)
        /\ GuardFull(g) = (Len(written) = Capacity)
        /\ FlagFull(f) = (Len(written) = Capacity)
        /\ GuardDrain(g) = written
        /\ FlagDrain(f) = written

C2_Witness ==
    /\ runOK /\ S >= 2 /\ Len(written) = S - 1 /\ lastOp = "write"
    /\ g.head < g.tail /\ f.head < f.tail
    /\ written[1] = 1

\* C6: after any sequence of completed write, read and clear calls size()
\* lies in [0, capacity()], capacity() being the nominal capacity S.
C6_SizeWithinCapacity ==
    /\ GuardSize(g) \in 0..Capacity
    /\ FlagSize(f) \in 0..Capacity
    /\ Capacity = S

C6_Witness ==
    /\ lastOp = "write" /\ prevOp = "read" /\ S >= 2
    /\ GuardSize(g) = Capacity /\ FlagSize(f) = Capacity
    /\ g.head = S

\* C7: the two buffers are observationally equivalent: the same calls give
\* the same read() results and the same full(), empty() and size().
C7_StrategiesEquivalent ==
    /\ gret = fret
    /\ GuardFull(g) = FlagFull(f)
    /\ GuardEmpty(g) = FlagEmpty(f)
    /\ GuardSize(g) = FlagSize(f)

C7_Witness ==
    /\ lastOp = "read" /\ gret.has /\ fret.has /\ gret.val = 1
    /\ g.head # f.head /\ g.tail # f.tail

\* C8: size() is the length of the drop-oldest FIFO replayed from the same
\* calls, and every read() returns the front of that FIFO, or the empty
\* result when it is empty.
C8_RefinesFifo ==
    /\ GuardSize(g) = Len(fifo)
    /\ FlagSize(f) = Len(fifo)
    /\ gret = aret
    /\ fret = aret

C8_Witness ==
    /\ lastOp = "read" /\ aret = Some(1) /\ Len(fifo) = S - 1 /\ S >= 2
    /\ g.head < g.tail

\* C9 as stated: in any reachable state, write(v) followed at once by
\* read() returns v.
C9_WriteThenReadReturnsWritten ==
    (lastOp = "read" /\ prevOp = "write") =>
        (gret = Some(lastArg) /\ fret = Some(lastArg))

\* C9 as amended: write(v) followed at once by read() returns v when the
\* buffer was empty before the write or capacity() is 1.
C9_WriteThenReadFromEmpty ==
    (lastOp = "read" /\ prevOp = "write" /\ (prevEmpty \/ Capacity = 1)) =>
        (gret = Some(lastArg) /\ fret = Some(lastArg))

C9_Witness ==
    /\ lastOp = "read" /\ prevOp = "write" /\ prevEmpty /\ S >= 2
    /\ lastArg = 1 /\ gret = Some(1) /\ fret = Some(1)
    /\ g.tail = 0 /\ g.head = 0

\* C10: right after clear() empty() is true, full() is false and size() is
\* 0, and a read() that follows returns the empty result.
C10_ClearEmpties ==
    /\ lastOp = "clear" =>
           /\ GuardEmpty(g) /\ ~GuardFull(g) /\ GuardSize(g) = 0
           /\ FlagEmpty(f) /\ ~FlagFull(f) /\ FlagSize(f) = 0
    /\ (lastOp = "read" /\ prevOp = "clear") =>
           (gret = Nullopt /\ fret = Nullopt)

C10_Witness ==
    /\ lastOp = "read" /\ prevOp = "clear" /\ ~prevEmpty
    /\ gret = Nullopt /\ fret = Nullopt
    /\ g.head # 0 /\ f.buf[f.tail] = 1

\* The places of a public operation whose next step loads or stores head,
\* tail, the full flag or a storage slot.
AccessPlaces ==
    [fn : {"full"}, at : {"a", "b"}]
    \cup [fn : {"empty"}, at : {"a", "b", "c"}]
    \cup [fn : {"read"}, at : {"c", "d", "e", "f", "g", "h"}]
    \cup [fn : {"clear"}, at : {"a", "b", "c", "d"}]
    \cup [fn : {"write"}, at : {"a", "b", "e", "f", "g", "h", "i", "j", "k",
                                "m", "p", "q", "r"}]
    \cup [fn : {"size"}, at : {"c", "d", "e", "f", "g", "h"}]
    \cup (IF kind = "flag" THEN {[fn |-> "size", at |-> "a"]} ELSE {})

\* C3: a thread that is about to access head, tail, the full flag or the
\* storage inside a public operation holds the mutex, so no two threads are
\* inside the buffer state at once.
C3_MutexHeldDuringAccess ==
    \A t \in Threads : pc[t] \in AccessPlaces => mutex = t

\* C4: the values the reader thread gets from read() are exactly the K
\* written values 0..K-1 in write order: nothing lost, repeated or corrupted.
C4_ReaderSeesAllInOrder ==
    /\ \A j \in 1..Len(observed) : observed[j] = j - 1
    /\ (pc["reader"].fn = "read_helper" /\ pc["reader"].at \in {"after", "asserted", "end"})
           => Len(observed) = K

\* C5: the size() call of the writer thread, made while the reader thread is
\* reading, never returns more than capacity().
C5_ConcurrentSizeWithinCapacity ==
    sizeRet.has => ~OverCapacity(sizeRet.val)

\* C11: read() on an empty buffer returns the empty result and leaves head,
\* tail, the full flag and the storage as they were, so that the buffer is
\* still empty, not full and of size 0.
C11_ReadOnEmptyChangesNothing ==
    [][(lastOp' = "read" /\ BothEmpty(g, f)) =>
         /\ gret' = Nullopt /\ fret' = Nullopt
         /\ g' = g /\ f' = f
         /\ GuardEmpty(g') /\ ~GuardFull(g') /\ GuardSize(g') = 0
         /\ FlagEmpty(f') /\ ~FlagFull(f') /\ FlagSize(f') = 0]_vars

C11_Witness ==
    /\ lastOp = "read" /\ preEmpty /\ prevOp = "read" /\ ~prevEmpty
    /\ gret = Nullopt /\ fret = Nullopt
    /\ g.head # 0 /\ S >= 2

\* C13: write(v) stores v in the slot head pointed to and advances head by
\* one modulo the physical capacity; tail advances by one exactly when the
\* buffer was full, and then size() stays capacity() and only the oldest
\* element is lost.
C13_WriteEffect ==
    [][lastOp' = "write" =>
         /\ g'.buf[g.head] = lastArg'
         /\ g'.head = (g.head + 1) % (S + 1)
         /\ g'.tail = IF Len(fifo) = S THEN (g.tail + 1) % (S + 1) ELSE g.tail
         /\ f'.buf[f.head] = lastArg'
         /\ f'.head = (f.head + 1) % S
         /\ f'.tail = IF Len(fifo) = S THEN (f.tail + 1) % S ELSE f.tail
         /\ Len(fifo) = S =>
               /\ GuardSize(g') = Capacity /\ FlagSize(f') = Capacity
               /\ GuardDrain(g') = Append(Tail(GuardDrain(g)), lastArg')
               /\ FlagDrain(f') = Append(Tail(FlagDrain(f)), lastArg')]_vars

C13_Witness ==
    /\ lastOp = "write" /\ prevOp = "write" /\ Len(fifo) = S /\ S >= 2
    /\ lastArg = 1 /\ g.head = 0 /\ g.tail = 1 /\ f.head = 0 /\ f.tail = 0
    /\ fifo[1] = 0

\* C14: the full flag of FullFlagRingBuffer is set exactly when the buffer
\* holds Capacity elements; it implies head = tail; and after a write
\* head = tail exactly when the buffer is full.
C14_FullFlagMeansFull ==
    /\ f.full <=> (Len(fifo) = S)
    /\ f.full => (f.head = f.tail)
    /\ lastOp = "write" => ((f.head = f.tail) <=> (Len(fifo) = S))

C14_Witness ==
    /\ f.full /\ lastOp = "write" /\ prevOp = "read" /\ S >= 2
    /\ f.head = f.tail /\ f.head # 0

\* C15: in GuardElemRingBuffer head = tail exactly when no element is held,
\* (head + 1) mod (S + 1) = tail exactly when S elements are held, and
\* full() and empty() never hold together.
C15_GuardEmptyFullExact ==
    /\ (g.head = g.tail) <=> (Len(fifo) = 0)
    /\ ((g.head + 1) % (S + 1) = g.tail) <=> (Len(fifo) = S)
    /\ ~(GuardFull(g) /\ GuardEmpty(g))

C15_Witness ==
    /\ GuardFull(g) /\ ~GuardEmpty(g) /\ g.head = S /\ g.tail = 0
    /\ S >= 2 /\ Len(fifo) = S /\ lastOp = "write"

\* C16 as stated: clear() sets tail to head and leaves head unchanged (and
\* resets the full flag); the storage is not modified.
C16_ClearMovesTailToHead ==
    [][lastOp' = "clear" =>
         /\ g'.tail = g.head /\ g'.head = g.head /\ g'.buf = g.buf
         /\ f'.tail = f.head /\ f'.head = f.head /\ f'.buf = f.buf
         /\ f'.full = FALSE]_vars

\* C16 as amended: clear() sets head to tail and leaves tail unchanged (and
\* resets the full flag); the storage is not modified.
C16_ClearMovesHeadToTail ==
    [][lastOp' = "clear" =>
         /\ g'.head = g.tail /\ g'.tail = g.tail /\ g'.buf = g.buf
         /\ f'.head = f.tail /\ f'.tail = f.tail /\ f'.buf = f.buf
         /\ f'.full = FALSE]_vars

C16_Witness ==
    /\ lastOp = "clear" /\ ~preEmpty /\ prevOp = "write" /\ S >= 2
    /\ g.head = g.tail /\ g.head = 1 /\ g.buf[1] = 1
    /\ f.head = f.tail /\ ~f.full

\* C17: read() on a buffer that is not empty returns the element tail
\* pointed to, advances tail by one modulo the physical capacity, leaves
\* head and the storage alone, lowers size() by one and leaves the buffer
\* not full.
C17_ReadEffect ==
    [][(lastOp' = "read" /\ ~GuardEmpty(g) /\ ~FlagEmpty(f)) =>
         /\ gret' = Some(g.buf[g.tail])
         /\ g'.tail = (g.tail + 1) % (S + 1)
         /\ g'.head = g.head /\ g'.buf = g.buf
         /\ GuardSize(g') = GuardSize(g) - 1
         /\ ~GuardFull(g')
         /\ fret' = Some(f.buf[f.tail])
         /\ f'.tail = (f.tail + 1) % S
         /\ f'.head = f.head /\ f'.buf = f.buf
         /\ FlagSize(f') = FlagSize(f) - 1
         /\ ~FlagFull(f')]_vars

C17_Witness ==
    /\ lastOp = "read" /\ ~preEmpty /\ prevOp = "write" /\ S >= 2
    /\ gret = Some(1) /\ fret = Some(1)
    /\ Len(fifo) = S - 1 /\ g.tail = 0 /\ g.head = S - 1

\* C20: head and tail are valid indices of the storage: 0..S for
\* GuardElemRingBuffer, 0..S-1 for FullFlagRingBuffer.
C20_CursorsInBounds ==
    /\ g.head \in 0..S /\ g.tail \in 0..S
    /\ f.head \in 0..(S - 1) /\ f.tail \in 0..(S - 1)
    /\ DOMAIN g.buf = 0..S
    /\ DOMAIN f.buf = 0..(S - 1)

C20_Witness ==
    /\ g.head = S /\ g.tail = S /\ f.head = S - 1 /\ f.tail = S - 1
    /\ S >= 2 /\ lastOp = "read" /\ gret.has

\* C19: when the reader thread has left its loop and its last empty() has
\* returned, the writer thread has completed its K writes, the buffer is
\* empty and the reader has counted exactly K successful reads.
C19_ReaderEndsWithAllRead ==
    pc["reader"] = [fn |-> "read_helper", at |-> "asserted"] =>
        /\ i = K
        /\ rb["reader"]
        /\ Len(observed) = K

\* What the two BufferReader threads got from read().
Delivered == read_values["reader"] \o read_values["reader2"]

\* C18: with two threads calling read() concurrently no stored element is
\* returned by two read() calls. The values of the pattern test are all
\* different, so no value is delivered twice.
C18_NoElementDeliveredTwice ==
    test = "pattern" =>
        \A a, b \in 1..Len(Delivered) : a # b => Delivered[a] # Delivered[b]

\* The mutex is free whenever no thread is inside a public operation.
MutexFreeOutside == (\A t \in Threads : ~InOp(t)) => mutex = "free"

\* C12: under fair scheduling every call of a public operation returns,
\* whatever the buffer holds and although read(), write() and size() call
\* empty() or full(), which lock the same mutex; and the mutex is free
\* whenever no thread is inside a public operation.
C12_EveryCallReturns ==
    /\ []MutexFreeOutside
    /\ \A t \in Callers : InOp(t) ~> ~InOp(t)

\* A thread holds the mutex inside the empty() or full() that its read(),
\* write() or size() called.
C12_Witness ==
    \E t \in Callers :
        /\ mutex = t
        /\ Len(stk[t]) = 2
        /\ pc[t].fn \in {"empty", "full"}

====
